---- MODULE Spec2Model ----
(***************************************************************************)
(* A model of mup (dkbednarczyk/mup): the lockfile store (pap.lock), the   *)
(* plugin add / remove / update commands with their recursive dependency   *)
(* installation, and the server init / install commands.                   *)
(*                                                                         *)
(* Version strings are sequences of one-character strings so that the      *)
(* parsers of the `versions` crate can be computed rather than assumed.    *)
(* The lockfile on disk is the sequence of TOML lines that write_out       *)
(* produces; Lockfile::init parses those lines back.                       *)
(***************************************************************************)
EXTENDS Integers, Sequences, FiniteSets, TLC

(***************************************************************************)
(* Bounds of the model.                                                    *)
(***************************************************************************)
\* longest artifact list a lockfile may reach before add is no longer tried
MaxRecords == 3
\* deepest chain of nested add calls the model follows
MaxDepth == 3

(***************************************************************************)
(* Characters and the parsers of versions::Versioning.                     *)
(***************************************************************************)
Digits == {"0", "1", "2", "3", "4", "5", "6", "7", "8", "9"}

Letters == {"a", "e", "l", "p", "r", "s", "t", "w", "h", "o", "c"}

IsAlnumChar(c) == c \in Digits \/ c \in Letters

\* index of the first element of s that lies in set cs, 0 when there is none
FirstIn(s, cs) ==
  IF \E i \in 1..Len(s) : s[i] \in cs
  THEN CHOOSE i \in 1..Len(s) : s[i] \in cs /\ \A j \in 1..(i - 1) : s[j] \notin cs
  ELSE 0

RECURSIVE SplitOn(_, _)
\* the pieces of s between the separator characters of cs (empty pieces kept)
SplitOn(s, cs) ==
  LET i == FirstIn(s, cs)
  IN IF i = 0 THEN <<s>>
     ELSE <<SubSeq(s, 1, i - 1)>> \o SplitOn(SubSeq(s, i + 1, Len(s)), cs)

\* parsers::unsigned: "0", or digits without a leading zero
IsUnsigned(s) ==
  /\ Len(s) >= 1
  /\ \A i \in 1..Len(s) : s[i] \in Digits
  /\ (Len(s) > 1 => s[1] # "0")

\* Chunk::alphanum_without_hyphens: alphanumerics holding at least one letter
IsAlphanumChunk(s) ==
  /\ Len(s) >= 1
  /\ \A i \in 1..Len(s) : IsAlnumChar(s[i])
  /\ \E i \in 1..Len(s) : s[i] \in Letters

\* Chunk::alphanum: as above, hyphens allowed inside
IsHyphenChunk(s) ==
  /\ Len(s) >= 1
  /\ \A i \in 1..Len(s) : IsAlnumChar(s[i]) \/ s[i] = "-"
  /\ \E i \in 1..Len(s) : s[i] \notin Digits

\* Release::parse after its '-': chunks separated by '.'
IsRelease(s) ==
  \A k \in 1..Len(SplitOn(s, {"."})) :
    LET c == SplitOn(s, {"."})[k] IN IsHyphenChunk(c) \/ IsUnsigned(c)

\* parsers::meta after its '+': one or more of alphanumerics, '-' and '.'
IsMeta(s) ==
  /\ Len(s) >= 1
  /\ \A i \in 1..Len(s) : IsAlnumChar(s[i]) \/ s[i] \in {"-", "."}

\* the part of s before its first '+', and whether the part after it is a meta
BeforePlus(s) ==
  LET i == FirstIn(s, {"+"}) IN IF i = 0 THEN s ELSE SubSeq(s, 1, i - 1)

MetaOk(s) ==
  LET i == FirstIn(s, {"+"}) IN i = 0 \/ IsMeta(SubSeq(s, i + 1, Len(s)))

\* the part of s before its first '-', and whether the part after it is a release
BeforeHyphen(s) ==
  LET i == FirstIn(s, {"-"}) IN IF i = 0 THEN s ELSE SubSeq(s, 1, i - 1)

ReleaseOk(s) ==
  LET i == FirstIn(s, {"-"}) IN i = 0 \/ IsRelease(SubSeq(s, i + 1, Len(s)))

\* SemVer::new: major.minor.patch, an optional -release and an optional +meta
IsSemVer(s) ==
  LET main == BeforePlus(s)
      core == SplitOn(BeforeHyphen(main), {"."})
  IN /\ MetaOk(s)
     /\ ReleaseOk(main)
     /\ Len(core) = 3
     /\ \A k \in 1..3 : IsUnsigned(core[k])

\* Version::new: an optional epoch, chunks separated by '.', -release, +meta
IsGeneralVersion(s) ==
  LET e == FirstIn(s, {":"})
      rest == IF e = 0 THEN s ELSE SubSeq(s, e + 1, Len(s))
      main == BeforePlus(rest)
      chunks == SplitOn(BeforeHyphen(main), {"."})
  IN /\ (e # 0 => IsUnsigned(SubSeq(s, 1, e - 1)))
     /\ MetaOk(rest)
     /\ ReleaseOk(main)
     /\ \A k \in 1..Len(chunks) : IsAlphanumChunk(chunks[k]) \/ IsUnsigned(chunks[k])

\* Mess::new: alphanumeric chunks separated by '.', ':', '-', '+', '_' or '~'
IsMess(s) ==
  LET chunks == SplitOn(s, {".", ":", "-", "+", "_", "~"})
  IN \A k \in 1..Len(chunks) :
       /\ Len(chunks[k]) >= 1
       /\ \A i \in 1..Len(chunks[k]) : IsAlnumChar(chunks[k][i])

\* Versioning::new: Ideal, else General, else Complex, else None
VersioningNew(s) ==
  IF IsSemVer(s) THEN "Ideal"
  ELSE IF IsGeneralVersion(s) THEN "General"
  ELSE IF IsMess(s) THEN "Complex"
  ELSE "None"

\* Versioning::is_complex
is_complex(v) == v = "Complex"

\* the version strings the commands are tried with
V1201 == <<"1", ".", "2", "0", ".", "1">>
V120 == <<"1", ".", "2", "0">>
VLatest == <<"l", "a", "t", "e", "s", "t">>
VPre == <<"1", ".", "7", ".", "1", "0", "_", "p", "r", "e", "4">>
VBad == <<"w", "h", "o", " ", "c", "a", "r", "e", "s">>

(***************************************************************************)
(* The remote catalog (the Modrinth API as plugin/modrinth.rs reads it).   *)
(***************************************************************************)
\* the projects of the catalog; d and e require one another, f publishes no
\* .jar file and the file of g is served from an address without a '/'
Slugs == {"a", "b", "c", "d", "e", "f", "g"}

\* ProjectInfo.id of each project: the provider-assigned canonical id
ProjectId(slug) ==
  CASE slug = "a" -> "A0" [] slug = "b" -> "B0" [] slug = "c" -> "C0"
    [] slug = "d" -> "D0" [] slug = "e" -> "E0"
    [] slug = "f" -> "F0" [] slug = "g" -> "G0"

Ids == {ProjectId(s) : s \in Slugs}

\* the tokens a user may name a project by: an id, a slug, or neither
Tokens == {"a", "b", "c", "A0", "zz"}

\* GET /project/{token}: Modrinth answers for the id and for the slug alike
Known(token) == token \in Ids \cup Slugs

SlugOf(token) ==
  IF token \in Slugs THEN token ELSE CHOOSE s \in Slugs : ProjectId(s) = token

\* ModrinthDependency lists of the versions: <<project_id, dependency_type>>
DepsOf(slug) ==
  CASE slug = "a" -> << <<"B0", "required">>, <<"C0", "required">> >>
    [] slug = "b" -> << <<"C0", "required">> >>
    [] slug = "c" -> << <<"B0", "optional">> >>
    [] slug = "d" -> << <<"E0", "required">> >>
    [] slug = "e" -> << <<"D0", "required">> >>
    [] slug \in {"f", "g"} -> <<>>

\* the version ids of a project, newest first; a2 exists once it is published
VersionIds(slug, pub) ==
  CASE slug = "a" -> IF pub THEN <<"a2", "a1">> ELSE <<"a1">>
    [] slug = "b" -> <<"b1">>
    [] slug = "c" -> <<"c1">>
    [] slug = "d" -> <<"d1">>
    [] slug = "e" -> <<"e1">>
    [] slug = "f" -> <<"f1">>
    [] slug = "g" -> <<"g1">>

\* a ProjectFile: its filename as characters, its url as the segments that
\* '/' separates, its hashes
ProjectFile(filename, url) ==
  [filename |-> filename, url |-> url, hashes |-> [sha512 |-> <<"sha512", url[Len(url)]>>]]

\* the files of a version, in the order the API lists them: c1 lists its
\* sources archive first and a jar whose name the url percent-encodes
FilesOf(vid) ==
  CASE vid = "a1" -> << ProjectFile(<<"a", "1", ".", "j", "a", "r">>, <<"cdn", "a1", "a1.jar">>) >>
    [] vid = "a2" -> << ProjectFile(<<"a", "2", ".", "j", "a", "r">>, <<"cdn", "a2", "a2.jar">>) >>
    [] vid = "b1" -> << ProjectFile(<<"b", "1", ".", "j", "a", "r">>, <<"cdn", "b1", "b1.jar">>) >>
    [] vid = "c1" -> << ProjectFile(<<"c", "1", ".", "z", "i", "p">>, <<"cdn", "c1", "c1.zip">>),
                        ProjectFile(<<"c", " ", "1", ".", "j", "a", "r">>, <<"cdn", "c1", "c%201.jar">>) >>
    [] vid = "d1" -> << ProjectFile(<<"d", "1", ".", "j", "a", "r">>, <<"cdn", "d1", "d1.jar">>) >>
    [] vid = "e1" -> << ProjectFile(<<"e", "1", ".", "j", "a", "r">>, <<"cdn", "e1", "e1.jar">>) >>
    [] vid = "f1" -> << ProjectFile(<<"f", "1", ".", "z", "i", "p">>, <<"cdn", "f1", "f1.zip">>) >>
    [] vid = "g1" -> << ProjectFile(<<"g", "1", ".", "j", "a", "r">>, <<"g1.jar">>) >>

\* the Version record the API returns for a version id
RemoteVersion(slug, vid) ==
  [id |-> vid,
   project_id |-> ProjectId(slug),
   dependencies |-> DepsOf(slug),
   game_versions |-> {V1201},
   loaders |-> {"fabric", "paper"},
   files |-> FilesOf(vid)]

\* the ProjectInfo record the API returns for a project
RemoteProject(slug, pub) ==
  [slug |-> slug,
   id |-> ProjectId(slug),
   server_side |-> "required",
   loaders |-> {"fabric", "paper"},
   game_versions |-> {V1201},
   versions |-> VersionIds(slug, pub)]

\* whether sequence s holds x
Contains(s, x) == \E i \in 1..Len(s) : s[i] = x

(***************************************************************************)
(* The lockfile: server/lockfile.rs.                                       *)
(***************************************************************************)
\* Loader::default
LoaderDefault ==
  [name |-> "", minecraft_version |-> VLatest, version |-> VLatest]

\* the two comment lines of LOCKFILE_MESSAGE
LOCKFILE_MESSAGE == << <<"#", "generated">>, <<"#", "do not edit">> >>

\* the lines of one Entry under its [[project]] header
EntryLines(e) ==
  << <<"aot", "project">>,
     <<"kv", "slug", e.slug>>,
     <<"kv", "installed_version", e.installed_version>>,
     <<"kv", "path", e.path>>,
     <<"kv", "remote_url", e.remote_url>>,
     <<"kv", "sha512", e.sha512>> >>

RECURSIVE ProjectLines(_)
ProjectLines(es) ==
  IF es = <<>> THEN <<>> ELSE EntryLines(Head(es)) \o ProjectLines(Tail(es))

\* the lines of the [loader] table
LoaderLines(l) ==
  << <<"table", "loader">>,
     <<"kv", "name", l.name>>,
     <<"kv", "minecraft_version", l.minecraft_version>>,
     <<"kv", "version", l.version>> >>

\* toml::to_string writing the fields in declaration order, the empty list
\* after the [loader] table
TomlToString_DeclarationOrder(lf) ==
  LoaderLines(lf.loader)
    \o (IF lf.project = <<>> THEN << <<"empty", "project">> >>
        ELSE ProjectLines(lf.project))

\* toml::to_string(&Lockfile): plain values come before tables, so an empty
\* artifact list is written as `project = []` ahead of [loader]
TomlToString(lf) ==
  IF lf.project = <<>>
  THEN << <<"empty", "project">> >> \o LoaderLines(lf.loader)
  ELSE LoaderLines(lf.loader) \o ProjectLines(lf.project)

EntryFields == {"slug", "installed_version", "path", "remote_url", "sha512"}

LoaderFields == {"name", "minecraft_version", "version"}

\* the parser's state before the first line: at the root table, nothing
\* read.  root, loader and the entries of project map the keys read to
\* their values, <<"str", text>> or <<"array">>; tables and arrays hold the
\* names given as [table] and as [[array]]; keys holds the keys of the
\* table being read when it is none of these
ParseStart ==
  [cur |-> "root", bad |-> FALSE, root |-> <<>>, tables |-> {}, arrays |-> {},
   keys |-> {}, loader |-> <<>>, project |-> <<>>]

\* a key = value line read into the table the parser is in; a key given
\* twice in one table is an error (`duplicate key`)
ReadKey(st, k, v) ==
  CASE st.cur = "root" ->
         IF k \in DOMAIN st.root THEN [st EXCEPT !.bad = TRUE]
         ELSE [st EXCEPT !.root = (k :> v) @@ @]
    [] st.cur = "loader" ->
         IF k \in DOMAIN st.loader THEN [st EXCEPT !.bad = TRUE]
         ELSE [st EXCEPT !.loader = (k :> v) @@ @]
    [] st.cur = "project" ->
         IF k \in DOMAIN st.project[Len(st.project)] THEN [st EXCEPT !.bad = TRUE]
         ELSE [st EXCEPT !.project[Len(st.project)] = (k :> v) @@ @]
    [] OTHER ->
         IF k \in st.keys THEN [st EXCEPT !.bad = TRUE]
         ELSE [st EXCEPT !.keys = @ \cup {k}]

\* one line read: a comment, a [table] header, an [[array]] header, a
\* key = "text" line, or a key = [] line.  A [table] whose name is already
\* a key, a table or an array is an error, and so is an [[array]] whose
\* name is already a key or a table
ReadLine(st, l) ==
  CASE l[1] = "#" -> st
    [] l[1] = "table" ->
         IF l[2] \in st.tables \cup st.arrays \cup DOMAIN st.root
         THEN [st EXCEPT !.bad = TRUE]
         ELSE [st EXCEPT !.cur = IF l[2] = "loader" THEN "loader" ELSE "other",
                         !.tables = @ \cup {l[2]}, !.keys = {}]
    [] l[1] = "aot" ->
         IF l[2] \in st.tables \cup DOMAIN st.root
         THEN [st EXCEPT !.bad = TRUE]
         ELSE [st EXCEPT !.cur = IF l[2] = "project" THEN "project" ELSE "other",
                         !.arrays = @ \cup {l[2]}, !.keys = {},
                         !.project = IF l[2] = "project" THEN Append(@, <<>>) ELSE @]
    [] l[1] = "kv" -> ReadKey(st, l[2], <<"str", l[3]>>)
    [] l[1] = "empty" -> ReadKey(st, l[2], <<"array">>)

RECURSIVE ReadLines(_, _, _)
ReadLines(lines, i, st) ==
  IF i > Len(lines) THEN st ELSE ReadLines(lines, i + 1, ReadLine(st, lines[i]))

\* serde's Deserialize for Lockfile over the tables read: `loader` must be
\* a table and `project` an array (empty, or of tables), both are required
\* fields, and so is every field of Loader and Entry, each of them text;
\* keys and tables the structs do not name are passed over
Deserialize(st) ==
  IF /\ ~st.bad
     /\ "loader" \in st.tables
     /\ \A f \in LoaderFields : f \in DOMAIN st.loader /\ st.loader[f][1] = "str"
     /\ IF "project" \in DOMAIN st.root THEN st.root["project"] = <<"array">>
        ELSE "project" \in st.arrays
     /\ \A i \in 1..Len(st.project) :
          \A f \in EntryFields : f \in DOMAIN st.project[i] /\ st.project[i][f][1] = "str"
  THEN [ok |-> TRUE,
        value |-> [loader |-> [name |-> st.loader["name"][2],
                               minecraft_version |-> st.loader["minecraft_version"][2],
                               version |-> st.loader["version"][2]],
                   project |-> [i \in 1..Len(st.project) |->
                                  [slug |-> st.project[i]["slug"][2],
                                   installed_version |-> st.project[i]["installed_version"][2],
                                   path |-> st.project[i]["path"][2],
                                   remote_url |-> st.project[i]["remote_url"][2],
                                   sha512 |-> st.project[i]["sha512"][2]]]]]
  ELSE [ok |-> FALSE, value |-> [loader |-> LoaderDefault, project |-> <<>>]]

\* toml::from_str::<Lockfile>
TomlFromStr(lines) == Deserialize(ReadLines(lines, 1, ParseStart))

\* the file pap.lock before the first command: it does not exist
NoFile == [exists |-> FALSE, lines |-> <<>>]

\* Lockfile::write_out: truncate, then the message and the TOML text
write_out(lf) == [exists |-> TRUE, lines |-> LOCKFILE_MESSAGE \o TomlToString(lf)]

\* what Lockfile::init returns for a file that parsed as p
Loaded(d, p) == [ok |-> p.ok, lf |-> p.value, disk |-> d, created |-> FALSE]

\* Lockfile::init: parse the file when it exists, else create it empty and
\* return the default Lockfile
Lockfile_init(d) ==
  IF d.exists
  THEN Loaded(d, TomlFromStr(d.lines))
  ELSE [ok |-> TRUE,
        lf |-> [loader |-> LoaderDefault, project |-> <<>>],
        disk |-> [exists |-> TRUE, lines |-> <<>>],
        created |-> TRUE]

\* Lockfile::is_initialized: the runtime version is not a Complex version
is_initialized(lf) == ~is_complex(VersioningNew(lf.loader.minecraft_version))

\* Lockfile::get: the first entry whose slug is the token
Lockfile_get(lf, project_id) == \E i \in 1..Len(lf.project) : lf.project[i].slug = project_id

\* Lockfile::add: push the entry
Lockfile_add(lf, entry) == [lf EXCEPT !.project = Append(@, entry)]

\* Lockfile::remove without its file deletion: drop the entry at position i
RemoveAt(seq, i) == SubSeq(seq, 1, i - 1) \o SubSeq(seq, i + 1, Len(seq))

\* the position of the first entry whose slug is the token, 0 when none
Position(lf, slug) ==
  IF Lockfile_get(lf, slug)
  THEN CHOOSE i \in 1..Len(lf.project) :
         /\ lf.project[i].slug = slug
         /\ \A j \in 1..(i - 1) : lf.project[j].slug # slug
  ELSE 0

\* Lockfile::with_params: the Lockfile it builds once the version is accepted
with_params(minecraft_version, loader) ==
  [loader |-> [name |-> loader,
               minecraft_version |-> minecraft_version,
               version |-> VLatest],
   project |-> <<>>]

(***************************************************************************)
(* plugin/modrinth.rs: fetch.                                              *)
(***************************************************************************)
\* the project a version id belongs to (GET /version/{id})
OwnerOf(vid) ==
  CASE vid \in {"a1", "a2"} -> "a" [] vid = "b1" -> "b" [] vid = "c1" -> "c"
    [] vid = "d1" -> "d" [] vid = "e1" -> "e" [] vid = "f1" -> "f" [] vid = "g1" -> "g"

\* whether a version supports the server's runtime version and loader
Fits(lf, v) ==
  /\ lf.loader.minecraft_version \in v.game_versions
  /\ lf.loader.name \in v.loaders

\* get_latest_version: the first listed version that supports the server
get_latest_version(lf, slug, pub) ==
  IF \E i \in 1..Len(VersionIds(slug, pub)) :
       Fits(lf, RemoteVersion(slug, VersionIds(slug, pub)[i]))
  THEN [ok |-> TRUE, err |-> "",
        version |-> RemoteVersion(slug,
          VersionIds(slug, pub)[
            CHOOSE i \in 1..Len(VersionIds(slug, pub)) :
              /\ Fits(lf, RemoteVersion(slug, VersionIds(slug, pub)[i]))
              /\ \A j \in 1..(i - 1) :
                   ~Fits(lf, RemoteVersion(slug, VersionIds(slug, pub)[j]))])]
  ELSE [ok |-> FALSE, err |-> "Incompatible", version |-> <<>>]

\* the checks get_specific_version makes on the version it fetched
CheckSpecific(lf, slug, resp) ==
  IF slug # resp.project_id
  THEN [ok |-> FALSE, err |-> "NotPartOfProject", version |-> resp]
  ELSE IF lf.loader.minecraft_version \notin resp.game_versions
  THEN [ok |-> FALSE, err |-> "Incompatible", version |-> resp]
  ELSE IF lf.loader.name \notin resp.loaders
  THEN [ok |-> FALSE, err |-> "Incompatible", version |-> resp]
  ELSE [ok |-> TRUE, err |-> "", version |-> resp]

\* get_specific_version: the version must name the slug as its project_id
get_specific_version(lf, slug, version) ==
  CheckSpecific(lf, slug, RemoteVersion(OwnerOf(version), version))

\* From<ModrinthDependency> for Dependency, with the slug get_project_name found
Dependency(d) ==
  [id |-> d[1],
   name |-> CHOOSE s \in Slugs : ProjectId(s) = d[1],
   required |-> d[2] = "required"]

\* str::ends_with
EndsWith(s, suffix) ==
  Len(s) >= Len(suffix) /\ SubSeq(s, Len(s) - Len(suffix) + 1, Len(s)) = suffix

\* files.iter().find(|f| f.filename.ends_with(".jar")): the position of the
\* first such file, 0 when there is none
FindJar(files) ==
  IF \E i \in 1..Len(files) : EndsWith(files[i].filename, <<".", "j", "a", "r">>)
  THEN CHOOSE i \in 1..Len(files) :
         /\ EndsWith(files[i].filename, <<".", "j", "a", "r">>)
         /\ \A j \in 1..(i - 1) : ~EndsWith(files[j].filename, <<".", "j", "a", "r">>)
  ELSE 0

\* the Info fetch returns once every check has passed; project_file is the
\* first file of the version whose filename ends with ".jar"
InfoOf(project, v) ==
  [name |-> project.slug,
   id |-> project.id,
   version |-> v.id,
   download_url |-> v.files[FindJar(v.files)].url,
   hash |-> v.files[FindJar(v.files)].hashes.sha512,
   dependencies |-> [i \in 1..Len(v.dependencies) |-> Dependency(v.dependencies[i])]]

NoInfo == [name |-> "", id |-> "", version |-> "", download_url |-> <<>>,
           hash |-> <<>>, dependencies |-> <<>>]

\* modrinth::fetch from its version lookup on (lines 92-137); v: its outcome.
\* The unwrap of line 102 panics when the version lists no .jar file.
FetchVersion(project, v) ==
  IF ~v.ok
  THEN [ok |-> FALSE, err |-> v.err, info |-> NoInfo]
  ELSE IF FindJar(v.version.files) = 0
  THEN [ok |-> FALSE, err |-> "Panic", info |-> NoInfo]
  ELSE IF \E i \in 1..Len(v.version.dependencies) :
            v.version.dependencies[i][1] = project.id
  THEN [ok |-> FALSE, err |-> "SelfDependency", info |-> NoInfo]
  ELSE [ok |-> TRUE, err |-> "", info |-> InfoOf(project, v.version)]

\* modrinth::fetch once the project is known (lines 61-96)
FetchProject(lf, project, version, pub) ==
  IF project.server_side = "unsupported"
  THEN [ok |-> FALSE, err |-> "Incompatible", info |-> NoInfo]
  ELSE IF lf.loader.name \notin project.loaders
  THEN [ok |-> FALSE, err |-> "Incompatible", info |-> NoInfo]
  ELSE IF lf.loader.minecraft_version \notin project.game_versions
  THEN [ok |-> FALSE, err |-> "Incompatible", info |-> NoInfo]
  ELSE IF version # "latest" /\ ~Contains(project.versions, version)
  THEN [ok |-> FALSE, err |-> "NotFound", info |-> NoInfo]
  ELSE FetchVersion(project,
         IF version = "latest"
         THEN get_latest_version(lf, project.slug, pub)
         ELSE get_specific_version(lf, project.slug, version))

\* modrinth::fetch
fetch(lf, id, version, pub) ==
  IF ~Known(id) THEN [ok |-> FALSE, err |-> "NotFound", info |-> NoInfo]
  ELSE FetchProject(lf, RemoteProject(SlugOf(id), pub), version, pub)

(***************************************************************************)
(* plugin/mod.rs.                                                          *)
(***************************************************************************)
\* loader::Loader::mod_location
mod_location(loader) == IF loader.name = "paper" THEN "plugins" ELSE "mods"

\* Info::get_file_path: what follows the last '/' of download_url, under the
\* loader's directory; rsplit_once('/').unwrap() panics on a url without '/'
get_file_path(info, loader) ==
  IF Len(info.download_url) < 2 THEN [ok |-> FALSE, path |-> <<>>]
  ELSE [ok |-> TRUE,
        path |-> <<mod_location(loader), info.download_url[Len(info.download_url)]>>]

\* the Entry Lockfile::add builds from what was resolved
EntryOf(info, loader) ==
  [slug |-> info.name,
   installed_version |-> info.version,
   path |-> get_file_path(info, loader).path,
   remote_url |-> info.download_url,
   sha512 |-> info.hash]

NoFrame == [lockfile |-> [loader |-> LoaderDefault, project |-> <<>>],
            info |-> NoInfo, i |-> 1, no_deps |-> FALSE]

\* what plugin::add has come to before its dependency loop
Entered(r, status, frame) ==
  [status |-> status, frame |-> frame, disk |-> r.disk,
   lf |-> r.lf, created |-> r.created]

\* plugin::add with the provider's answer f (lines 174-178)
AddResolved(r, f, no_deps) ==
  IF ~f.ok THEN Entered(r, f.err, NoFrame)
  ELSE Entered(r, "frame",
               [lockfile |-> r.lf, info |-> f.info, i |-> 1, no_deps |-> no_deps])

\* plugin::add with the Lockfile::init result r (lines 162-178)
AddChecked(r, project_id, version, no_deps, pub, netok) ==
  IF ~r.ok THEN Entered(r, "ParseError", NoFrame)
  ELSE IF VersioningNew(r.lf.loader.minecraft_version) = "None"
  THEN Entered(r, "Panic", NoFrame)
  ELSE IF ~is_initialized(r.lf) THEN Entered(r, "NotInitialized", NoFrame)
  ELSE IF Lockfile_get(r.lf, project_id) THEN Entered(r, "AlreadyInstalled", NoFrame)
  ELSE IF ~netok THEN Entered(r, "Transport", NoFrame)
  ELSE AddResolved(r, fetch(r.lf, project_id, version, pub), no_deps)

\* plugin::add up to its dependency loop (lines 162-178): load the lockfile,
\* check it, look the token up, resolve it.  netok: the provider answers.
add_enter(d, project_id, version, no_deps, pub, netok) ==
  AddChecked(Lockfile_init(d), project_id, version, no_deps, pub, netok)

\* how a download ends: "ok", or the step that failed: the request
\* ("Transport"), create_dir_all or File::create ("Create"), a read of the
\* body ("Read"), the comparison of the hashes ("ChecksumMismatch")
DownloadOutcomes == {"ok", "Transport", "Create", "Read", "ChecksumMismatch"}

\* the error a download returns, "ok" when none
DownloadStatus(outcome) == IF outcome \in {"Create", "Read"} THEN "Io" ELSE outcome

\* the files after a download to path (lib.rs download and
\* download_with_checksum, forge::fetch 69-76): nothing is touched before
\* File::create; a failing read leaves the part of the body written so far;
\* a mismatch is found once the whole body is in the file
Written(files, path, outcome) ==
  CASE outcome \in {"ok", "ChecksumMismatch"} -> (path :> "body") @@ files
    [] outcome = "Read" -> (path :> "partial") @@ files
    [] OTHER -> files

(***************************************************************************)
(* State.                                                                  *)
(***************************************************************************)
VARIABLES
  disk,       \* the file pap.lock: whether it exists, and its lines
  jars,       \* the artifact files under mods/ or plugins/: path |-> content
  stack,      \* the frames of the nested plugin::add calls, innermost last
  run,        \* the command being run or last run, its arguments and outcome
  last,       \* the Lockfile value the latest Lockfile constructor or mutator left
  published,  \* whether the provider has published version a2 of project a
  dl,         \* a download_with_checksum call: its stream, buffer, file, outcome
  lrun        \* a loader installer resolution: its arguments and outcome

vars == <<disk, jars, stack, run, last, published, dl, lrun>>

\* what the server and plugin commands leave alone
others == <<dl, lrun>>

\* the slugs recorded in a Lockfile
Recorded(lf) == {lf.project[i].slug : i \in 1..Len(lf.project)}

\* a command and its outcome; pre: the slugs recorded when it began;
\* committed: the slugs whose Lockfile::add has returned Ok during it
Command(cmd, id, version, flags, status, pre, committed) ==
  [cmd |-> cmd, id |-> id, version |-> version, flags |-> flags,
   status |-> status, pre |-> pre, committed |-> committed]

\* no command is running and the last one has exited
NoRun == Command("none", "", "", {}, "idle", {}, {})

NoLast == [op |-> "none", created |-> FALSE,
           lf |-> [loader |-> LoaderDefault, project |-> <<>>]]

Idle == stack = <<>> /\ run = NoRun

\* the <<project, version>> arguments add and update are tried with
AddArgs == {<<t, "latest">> : t \in Tokens} \cup {<<"a", "a1">>, <<"b", "a1">>}

\* no download has been started
NoDownload == [phase |-> "idle"]

\* no loader has been asked for
NoLoaderRun == [cmd |-> "none"]

Init ==
  /\ disk = NoFile
  /\ jars = <<>>
  /\ stack = <<>>
  /\ run = NoRun
  /\ last = NoLast
  /\ published = FALSE
  /\ dl = NoDownload
  /\ lrun = NoLoaderRun

(***************************************************************************)
(* server init: server/mod.rs init, Lockfile::with_params.                 *)
(***************************************************************************)
\* whether loader::fetch makes a request for the loader: the names
\* Loader::fetch matches; any other name returns Ok at once
Fetches(name) == name \in {"paper", "fabric", "forge", "neoforge", "vanilla"}

\* the outcome of with_params: the unwrap panics on an unparseable version,
\* a Complex version is an error, anything else is written out
with_params_status(minecraft_version) ==
  LET mv == VersioningNew(minecraft_version)
  IN IF mv = "None" THEN "Panic"
     ELSE IF is_complex(mv) THEN "InvalidVersion"
     ELSE "ok"

\* server::init for an accepted version: the file is written, then
\* is_initialized is asked, the loader is fetched and the eula signed;
\* stage: the step that fails, "ok" when none
ServerInitWrites(lf, stage) ==
  /\ disk' = write_out(lf)
  /\ last' = [op |-> "with_params", created |-> FALSE, lf |-> lf]
  /\ run' = Command("init", lf.loader.name, lf.loader.minecraft_version, {},
                    IF ~is_initialized(lf) THEN "NotInitialized"
                    ELSE CASE stage = "fetch" -> "Transport"
                           [] stage = "sign" -> "Io"
                           [] stage = "ok" -> "ok",
                    {}, {})

ServerInit(minecraft_version, loader, stage) ==
  /\ Idle
  /\ stage = "fetch" => Fetches(loader)
  /\ IF with_params_status(minecraft_version) = "ok"
     THEN ServerInitWrites(with_params(minecraft_version, loader), stage)
     ELSE /\ UNCHANGED <<disk, last>>
          /\ run' = Command("init", loader, minecraft_version, {},
                            with_params_status(minecraft_version), {}, {})
  /\ UNCHANGED <<jars, stack, published>>
  /\ UNCHANGED others

(***************************************************************************)
(* plugin add: plugin/mod.rs add.                                          *)
(***************************************************************************)
\* the flags of an add or update command
AddFlags(no_deps) == IF no_deps THEN {"no_deps"} ELSE {}

\* a command whose plugin::add has come to r before its dependency loop
Begun(cmd, shown, version, no_deps, r) ==
  /\ disk' = r.disk
  /\ last' = [op |-> "init", created |-> r.created, lf |-> r.lf]
  /\ stack' = IF r.status = "frame" THEN <<r.frame>> ELSE <<>>
  /\ run' = Command(cmd, shown, version, AddFlags(no_deps),
                    IF r.status = "frame" THEN "running" ELSE r.status,
                    Recorded(r.lf), {})
  /\ UNCHANGED <<jars, published>>

\* a command that begins with plugin::add(project_id, version, no_deps)
BeginAdd(cmd, shown, project_id, version, no_deps, netok) ==
  Begun(cmd, shown, version, no_deps,
        add_enter(disk, project_id, version, no_deps, published, netok))

AddStart(project_id, version, no_deps, netok) ==
  /\ Idle
  /\ BeginAdd("add", project_id, project_id, version, no_deps, netok)
  /\ UNCHANGED others

Top == stack[Len(stack)]

\* the whole call fails: every frame returns the error
Abort(status) ==
  /\ stack' = <<>>
  /\ run' = [run EXCEPT !.status = status]

\* the recursive plugin::add of a dependency has come to r
Recursed(r) ==
  /\ disk' = r.disk
  /\ last' = [op |-> "init", created |-> r.created, lf |-> r.lf]
  /\ IF r.status = "frame"
     THEN /\ stack' = Append([stack EXCEPT ![Len(stack)].i = @ + 1], r.frame)
          /\ UNCHANGED run
     ELSE Abort(r.status)

\* one turn of the dependency loop of the innermost call (lines 180-197)
DepTurn(dep, netok) ==
  IF ~dep.required \/ Lockfile_get(Top.lockfile, dep.name)
  THEN /\ stack' = [stack EXCEPT ![Len(stack)].i = @ + 1]
       /\ UNCHANGED <<disk, last, run>>
  ELSE /\ Len(stack) < MaxDepth
       /\ Recursed(add_enter(disk, dep.id, "latest", FALSE, published, netok))

AddDep(netok) ==
  /\ stack # <<>>
  /\ ~Top.no_deps
  /\ Top.i <= Len(Top.info.dependencies)
  /\ DepTurn(Top.info.dependencies[Top.i], netok)
  /\ UNCHANGED <<jars, published>>
  /\ UNCHANGED others

\* the innermost call is past its dependency loop
ReadyToDownload ==
  /\ stack # <<>>
  /\ Top.no_deps \/ Top.i > Len(Top.info.dependencies)

\* Lockfile::add returning without write_out
Committed_NoWriteOut(lf) ==
  /\ disk' = disk
  /\ last' = [op |-> "add", created |-> FALSE, lf |-> lf]
  /\ stack' = SubSeq(stack, 1, Len(stack) - 1)
  /\ run' = [run EXCEPT !.committed = @ \cup {Top.info.name},
                        !.status = IF Len(stack) = 1 THEN "ok" ELSE @]

\* Lockfile::add has left lf in memory and on disk; the call returns
Committed(lf) ==
  /\ disk' = write_out(lf)
  /\ last' = [op |-> "add", created |-> FALSE, lf |-> lf]
  /\ stack' = SubSeq(stack, 1, Len(stack) - 1)
  /\ run' = [run EXCEPT !.committed = @ \cup {Top.info.name},
                        !.status = IF Len(stack) = 1 THEN "ok" ELSE @]

\* download_plugin succeeds and Lockfile::add commits the record (199-201)
AddFinish ==
  /\ ReadyToDownload
  /\ get_file_path(Top.info, Top.lockfile.loader).ok
  /\ Len(Top.lockfile.project) < MaxRecords
  /\ jars' = Written(jars, get_file_path(Top.info, Top.lockfile.loader).path, "ok")
  /\ Committed(Lockfile_add(Top.lockfile, EntryOf(Top.info, Top.lockfile.loader)))
  /\ UNCHANGED published
  /\ UNCHANGED others

\* download_plugin fails (199): get_file_path panics on a url without '/',
\* or the download fails at one of its steps; every frame returns the error
AddDownloadFails(outcome) ==
  /\ ReadyToDownload
  /\ outcome # "ok"
  /\ IF get_file_path(Top.info, Top.lockfile.loader).ok
     THEN /\ jars' = Written(jars, get_file_path(Top.info, Top.lockfile.loader).path,
                                     outcome)
          /\ Abort(DownloadStatus(outcome))
     ELSE /\ UNCHANGED jars
          /\ Abort("Panic")
  /\ UNCHANGED <<disk, last, published>>
  /\ UNCHANGED others

(***************************************************************************)
(* plugin remove: plugin/mod.rs remove, Lockfile::remove.                  *)
(***************************************************************************)
RemoveFlags(keep_jarfile, remove_orphans) ==
  (IF keep_jarfile THEN {"keep_jarfile"} ELSE {})
    \cup (IF remove_orphans THEN {"remove_orphans"} ELSE {})

\* what the checks ahead of a lockfile operation answer: "" when they pass
Refusal(r) ==
  IF ~r.ok THEN "ParseError"
  ELSE IF VersioningNew(r.lf.loader.minecraft_version) = "None" THEN "Panic"
  ELSE IF ~is_initialized(r.lf) THEN "NotInitialized"
  ELSE ""

\* Lockfile::remove(slug, keep_jarfile): find the entry, delete its file
\* unless kept (an error there returns), drop the entry, write the file.
\* remove_orphans is handed over by plugin::remove and has no effect here.
\* fsok: the file system lets the file be deleted when it is there.
Lockfile_remove(lf, files, slug, keep_jarfile, fsok) ==
  LET entry == Position(lf, slug)
  IN IF entry = 0
     THEN [status |-> "NotFound", lf |-> lf, files |-> files]
     ELSE IF ~keep_jarfile /\ (~fsok \/ lf.project[entry].path \notin DOMAIN files)
     THEN [status |-> "Io", lf |-> lf, files |-> files]
     ELSE [status |-> "ok",
           lf |-> [lf EXCEPT !.project = RemoveAt(@, entry)],
           files |-> IF keep_jarfile THEN files
                     ELSE [p \in DOMAIN files \ {lf.project[entry].path} |-> files[p]]]

\* plugin::remove with the Lockfile::init result r and, when the checks
\* pass, the Lockfile::remove result x
Removed(r, x, id, flags) ==
  /\ run' = Command("remove", id, "", flags,
                    IF Refusal(r) # "" THEN Refusal(r) ELSE x.status,
                    Recorded(r.lf), {})
  /\ IF Refusal(r) = "" /\ x.status = "ok"
     THEN /\ disk' = write_out(x.lf)
          /\ jars' = x.files
          /\ last' = [op |-> "remove", created |-> FALSE, lf |-> x.lf]
     ELSE /\ disk' = r.disk
          /\ last' = [op |-> "init", created |-> r.created, lf |-> r.lf]
          /\ UNCHANGED jars

RemoveLoaded(r, id, keep_jarfile, remove_orphans, fsok) ==
  Removed(r, Lockfile_remove(r.lf, jars, id, keep_jarfile, fsok), id,
          RemoveFlags(keep_jarfile, remove_orphans))

Remove(id, keep_jarfile, remove_orphans, fsok) ==
  /\ Idle
  /\ RemoveLoaded(Lockfile_init(disk), id, keep_jarfile, remove_orphans, fsok)
  /\ UNCHANGED <<stack, published>>
  /\ UNCHANGED others

(***************************************************************************)
(* plugin update: plugin/mod.rs update.                                    *)
(***************************************************************************)
\* update(id) with its own Lockfile::init result r (251-257): the checks,
\* then add("modrinth", id, version, no_deps), which loads the file again,
\* as the first init left it
UpdateLoaded(r, shown, id, version, no_deps, netok) ==
  IF Refusal(r) # ""
  THEN /\ disk' = r.disk
       /\ last' = [op |-> "init", created |-> r.created, lf |-> r.lf]
       /\ run' = Command("update", shown, version, AddFlags(no_deps), Refusal(r),
                         Recorded(r.lf), {})
       /\ UNCHANGED <<jars, stack, published>>
  ELSE Begun("update", shown, version, no_deps,
             add_enter(r.disk, id, version, no_deps, published, netok))

Update(id, version, no_deps, netok) ==
  /\ Idle
  /\ UpdateLoaded(Lockfile_init(disk), id, id, version, no_deps, netok)
  /\ UNCHANGED others

\* update("all") with its Lockfile::init result r: update(name) for each
\* entry in turn, stopping at the first error; each of them loads the file
\* again and is an add of a slug the lockfile holds
UpdateAllLoaded(r, version, no_deps, netok) ==
  IF Refusal(r) # "" \/ r.lf.project = <<>>
  THEN /\ disk' = r.disk
       /\ last' = [op |-> "init", created |-> r.created, lf |-> r.lf]
       /\ run' = Command("update", "all", version, AddFlags(no_deps),
                         IF Refusal(r) # "" THEN Refusal(r) ELSE "ok",
                         Recorded(r.lf), {})
       /\ UNCHANGED <<jars, stack, published>>
  ELSE UpdateLoaded(Lockfile_init(r.disk), "all", r.lf.project[1].slug, version,
                    no_deps, netok)

UpdateAll(version, no_deps, netok) ==
  /\ Idle
  /\ UpdateAllLoaded(Lockfile_init(disk), version, no_deps, netok)
  /\ UNCHANGED others

(***************************************************************************)
(* server install: server/mod.rs install.                                  *)
(***************************************************************************)
\* the files once the first k entries have been downloaded
Downloaded(files, entries, k) ==
  [p \in {entries[i].path : i \in 1..k} |-> "body"] @@ files

\* server::install past its checks (69-81): loader::fetch, the download of
\* each entry in turn, eula::sign; each `?` returns at the first failure
\* and what was written before it stays.  stage: the step that fails ("ok"
\* when none); n: the entries downloaded before the one that fails as outcome
InstallRan(lf, files, stage, n, outcome) ==
  CASE stage = "fetch" -> [status |-> "Transport", files |-> files]
    [] stage = "download" ->
         [status |-> DownloadStatus(outcome),
          files |-> Written(Downloaded(files, lf.project, n),
                                    lf.project[n + 1].path, outcome)]
    [] stage = "sign" ->
         [status |-> "Io", files |-> Downloaded(files, lf.project, Len(lf.project))]
    [] stage = "ok" ->
         [status |-> "ok", files |-> Downloaded(files, lf.project, Len(lf.project))]

\* server::install with the Lockfile::init result r and, when the checks
\* pass, what the run x came to
InstallLoaded(r, x) ==
  /\ disk' = r.disk
  /\ last' = [op |-> "init", created |-> r.created, lf |-> r.lf]
  /\ jars' = IF Refusal(r) # "" THEN jars ELSE x.files
  /\ run' = Command("install", "", "", {},
                    IF Refusal(r) # "" THEN Refusal(r) ELSE x.status, Recorded(r.lf), {})

Install(stage, n, outcome) ==
  /\ Idle
  /\ stage = "fetch" => Fetches(Lockfile_init(disk).lf.loader.name)
  /\ stage = "download" => (n < Len(Lockfile_init(disk).lf.project) /\ outcome # "ok")
  /\ InstallLoaded(Lockfile_init(disk),
                   InstallRan(Lockfile_init(disk).lf, jars, stage, n, outcome))
  /\ UNCHANGED <<stack, published>>
  /\ UNCHANGED others

(***************************************************************************)
(* The process exits: its outcome has been reported and its memory is gone.*)
(***************************************************************************)
Exit ==
  /\ stack = <<>>
  /\ run # NoRun
  /\ run' = NoRun
  /\ last' = NoLast
  /\ UNCHANGED <<disk, jars, stack, published>>
  /\ UNCHANGED others

(***************************************************************************)
(* The provider publishes a newer version of project a.                    *)
(***************************************************************************)
Publish ==
  /\ ~published
  /\ published' = TRUE
  /\ UNCHANGED <<disk, jars, stack, run, last>>
  /\ UNCHANGED others

(***************************************************************************)
(* The lockfile is carried to a directory without the artifact files (or   *)
(* the files are deleted by hand): what server install is run for.         *)
(***************************************************************************)
JarsGone ==
  /\ Idle
  /\ jars # <<>>
  /\ jars' = <<>>
  /\ UNCHANGED <<disk, stack, run, last, published>>
  /\ UNCHANGED others

(***************************************************************************)
(* The specification.                                                      *)
(***************************************************************************)
MinecraftArgs == {V1201, VLatest, VPre, VBad}

LoaderArgs == {"fabric", "none"}

Next ==
  \/ \E mv \in MinecraftArgs, l \in LoaderArgs, stage \in {"fetch", "sign", "ok"} :
       ServerInit(mv, l, stage)
  \/ \E a \in AddArgs, nd \in BOOLEAN, netok \in BOOLEAN :
       AddStart(a[1], a[2], nd, netok)
  \/ \E netok \in BOOLEAN : AddDep(netok)
  \/ AddFinish
  \/ \E outcome \in DownloadOutcomes : AddDownloadFails(outcome)
  \/ \E t \in Tokens, k \in BOOLEAN, o \in BOOLEAN, fsok \in BOOLEAN :
       Remove(t, k, o, fsok)
  \/ \E a \in AddArgs, nd \in BOOLEAN, netok \in BOOLEAN :
       Update(a[1], a[2], nd, netok)
  \/ \E nd \in BOOLEAN, netok \in BOOLEAN : UpdateAll("latest", nd, netok)
  \/ \E stage \in {"fetch", "download", "sign", "ok"}, n \in 0..(MaxRecords - 1),
        outcome \in DownloadOutcomes :
       Install(stage, n, outcome)
  \/ Exit
  \/ Publish
  \/ JarsGone

Spec == Init /\ [][Next]_vars

(***************************************************************************)
(* plugin add over the projects that require one another, the project      *)
(* without a .jar file and the project whose address has no '/'.           *)
(***************************************************************************)
NextCycle ==
  \/ \E stage \in {"fetch", "sign", "ok"} : ServerInit(V1201, "fabric", stage)
  \/ \E t \in {"d", "e", "D0", "c", "f", "g"}, nd \in BOOLEAN, netok \in BOOLEAN :
       AddStart(t, "latest", nd, netok)
  \/ \E netok \in BOOLEAN : AddDep(netok)
  \/ AddFinish
  \/ \E outcome \in DownloadOutcomes : AddDownloadFails(outcome)
  \/ Exit

SpecCycle == Init /\ [][NextCycle]_vars

(***************************************************************************)
(* lib.rs: hash_and_write and download_with_checksum.                      *)
(***************************************************************************)
\* the longest response body tried
MaxBody == 3

\* the length of hash_and_write's buffer, [0; 1024] in the source, scaled
\* down so that bodies shorter than, as long as and longer than it are tried
ChunkLen == 2

\* the response bodies: every sequence up to MaxBody long of two byte values
Bodies == UNION {[1..n -> {10, 255}] : n \in 0..MaxBody}

\* D::new(): the digest is generic in the source; a 16-bit rolling digest
\* stands for it
DigestNew == 5381 % 65536

\* hasher.write_all(bytes): the bytes are absorbed one after another
RECURSIVE DigestUpdate(_, _)
DigestUpdate(h, bytes) ==
  IF bytes = <<>> THEN h
  ELSE DigestUpdate((h * 33 + Head(bytes)) % 65536, Tail(bytes))

\* hasher.finalize(): the digest's bytes
DigestFinalize(h) == <<h \div 256, h % 256>>

HexDigits == <<"0", "1", "2", "3", "4", "5", "6", "7",
               "8", "9", "a", "b", "c", "d", "e", "f">>

\* the fold over the digest's bytes that builds the hex string, each byte
\* as format!("{b:02x}")
RECURSIVE HexOf(_)
HexOf(bytes) ==
  IF bytes = <<>> THEN <<>>
  ELSE <<HexDigits[(Head(bytes) \div 16) + 1], HexDigits[(Head(bytes) % 16) + 1]>>
         \o HexOf(Tail(bytes))

\* the lowercase hex digest of a whole byte sequence
HexDigest(bytes) == HexOf(DigestFinalize(DigestUpdate(DigestNew, bytes)))

\* the same text in upper case, as a checksum may be published
UpperHex(hex) ==
  [i \in 1..Len(hex) |->
     CASE hex[i] = "a" -> "A" [] hex[i] = "b" -> "B" [] hex[i] = "c" -> "C"
       [] hex[i] = "d" -> "D" [] hex[i] = "e" -> "E" [] hex[i] = "f" -> "F"
       [] OTHER -> hex[i]]

\* the expected hashes a body is downloaded with: its own digest, the same
\* in upper case, and the digest of another body
WantedFor(body) ==
  {HexDigest(body), UpperHex(HexDigest(body)), HexDigest(body \o <<10>>)}

\* &buf[..count] with count bytes wrongly taken to be the whole buffer
Chunk_WholeBuffer(buf, count) == buf

\* &buf[..count]
Chunk(buf, count) == SubSeq(buf, 1, count)

\* reader.read(&mut buf) returning count: the next count bytes of the body
\* land at the start of the buffer, the rest of the buffer stays
ReadInto(buf, body, pos, count) ==
  SubSeq(body, pos + 1, pos + count) \o SubSeq(buf, count + 1, Len(buf))

\* the comparison of download_with_checksum made blind to letter case
Verdict_CaseBlind(hash, wanted) ==
  IF UpperHex(hash) # UpperHex(wanted) THEN "ChecksumMismatch" ELSE "ok"

\* download_with_checksum's comparison (lines 82-88)
Verdict(hash, wanted) == IF hash # wanted THEN "ChecksumMismatch" ELSE "ok"

\* the error's text: "hashes do not match, expected {wanted_hash} but got {hash}"
MismatchText(hash, wanted) ==
  <<"hashes do not match, expected ">> \o wanted \o <<" but got ">> \o hash

\* download_with_checksum up to hash_and_write: the request (netok: it is
\* answered), create_dir_all, File::create, then D::new() and the buffer.
\* stale: the destination held a file before.
DownloadStart(body, wanted, stale, netok) ==
  /\ dl = NoDownload
  /\ dl' = [phase |-> IF netok THEN "reading" ELSE "done",
            result |-> IF netok THEN "running" ELSE "Transport",
            body |-> body, wanted |-> wanted, pos |-> 0, reads |-> 0,
            buf |-> [i \in 1..ChunkLen |-> 0],
            hasher |-> DigestNew,
            file |-> IF netok THEN [exists |-> TRUE, bytes |-> <<>>]
                     ELSE IF stale THEN [exists |-> TRUE, bytes |-> <<255>>]
                     ELSE [exists |-> FALSE, bytes |-> <<>>],
            hash |-> <<>>, text |-> <<>>]
  /\ UNCHANGED <<disk, jars, stack, run, last, published, lrun>>

\* what one turn of hash_and_write's loop does with the buffer as read
ChunkTaken(buf, count) ==
  dl' = [dl EXCEPT !.buf = buf,
                   !.pos = @ + count,
                   !.reads = @ + 1,
                   !.file.bytes = @ \o Chunk(buf, count),
                   !.hasher = DigestUpdate(@, Chunk(buf, count))]

\* one turn of the loop with a read of count > 0 bytes (lines 44-50); a
\* read may return fewer bytes than the buffer holds and the body has left
HashAndWriteChunk(count) ==
  /\ dl.phase = "reading"
  /\ count \in 1..ChunkLen
  /\ count <= Len(dl.body) - dl.pos
  /\ ChunkTaken(ReadInto(dl.buf, dl.body, dl.pos, count), count)
  /\ UNCHANGED <<disk, jars, stack, run, last, published, lrun>>

\* download_with_checksum once hash_and_write has returned hash
Verified(hash) ==
  dl' = [dl EXCEPT !.phase = "done",
                   !.reads = @ + 1,
                   !.hash = hash,
                   !.result = Verdict(hash, dl.wanted),
                   !.text = IF Verdict(hash, dl.wanted) = "ok" THEN <<>>
                            ELSE MismatchText(hash, dl.wanted)]

\* the read that returns 0 at the end of the body: the loop breaks, the
\* digest is finalized and formatted (lines 45-59), the hashes are compared
HashAndWriteEnd ==
  /\ dl.phase = "reading"
  /\ dl.pos = Len(dl.body)
  /\ Verified(HexOf(DigestFinalize(dl.hasher)))
  /\ UNCHANGED <<disk, jars, stack, run, last, published, lrun>>

\* reader.read fails: the ? of line 44 returns the error
ReadFails ==
  /\ dl.phase = "reading"
  /\ dl' = [dl EXCEPT !.phase = "done", !.result = "Io"]
  /\ UNCHANGED <<disk, jars, stack, run, last, published, lrun>>

NextDownload ==
  \/ \E body \in Bodies, stale \in BOOLEAN, netok \in BOOLEAN :
       \E wanted \in WantedFor(body) : DownloadStart(body, wanted, stale, netok)
  \/ \E count \in 1..ChunkLen : HashAndWriteChunk(count)
  \/ HashAndWriteEnd
  \/ ReadFails

SpecDownload == Init /\ [][NextDownload]_vars

(***************************************************************************)
(* versions::Versioning as the loaders use it: fields, Display, ordering.  *)
(***************************************************************************)
DigitChars == <<"0", "1", "2", "3", "4", "5", "6", "7", "8", "9">>

\* str::parse::<u32> of a digit string
RECURSIVE ParseNat(_)
ParseNat(s) ==
  IF s = <<>> THEN 0
  ELSE ParseNat(SubSeq(s, 1, Len(s) - 1)) * 10
         + (CHOOSE i \in 1..10 : DigitChars[i] = s[Len(s)]) - 1

\* Display of an unsigned number
RECURSIVE NatToStr(_)
NatToStr(n) ==
  IF n < 10 THEN <<DigitChars[n + 1]>>
  ELSE NatToStr(n \div 10) \o <<DigitChars[(n % 10) + 1]>>

\* s after its epoch, when it has one
AfterEpoch(s) ==
  IF FirstIn(s, {":"}) = 0 THEN s ELSE SubSeq(s, FirstIn(s, {":"}) + 1, Len(s))

\* the text of the chunks of a SemVer or Version: what stands before the
\* release and the meta, split at the dots
ChunkTexts(s) == SplitOn(BeforeHyphen(BeforePlus(AfterEpoch(s))), {"."})

\* the -release part of a SemVer or Version, <<>> when there is none
ReleaseText(s) ==
  IF FirstIn(BeforePlus(AfterEpoch(s)), {"-"}) = 0 THEN <<>>
  ELSE SubSeq(BeforePlus(AfterEpoch(s)),
              FirstIn(BeforePlus(AfterEpoch(s)), {"-"}) + 1,
              Len(BeforePlus(AfterEpoch(s))))

\* Version::nth_lenient and Mess::nth: the number at chunk i, or the one
\* its leading digits spell, -1 for None
Nth(chunks, i) ==
  IF i > Len(chunks) THEN -1
  ELSE IF IsUnsigned(chunks[i]) THEN ParseNat(chunks[i])
  ELSE IF /\ FirstIn(chunks[i], Letters) > 1
          /\ IsUnsigned(SubSeq(chunks[i], 1, FirstIn(chunks[i], Letters) - 1))
  THEN ParseNat(SubSeq(chunks[i], 1, FirstIn(chunks[i], Letters) - 1))
  ELSE -1

\* the chunks Mess::nth looks at: those before the first separator other
\* than a dot
MessChunks(s) == SplitOn(SubSeq(s, 1,
                   IF FirstIn(s, {":", "-", "+", "_", "~"}) = 0 THEN Len(s)
                   ELSE FirstIn(s, {":", "-", "+", "_", "~"}) - 1), {"."})

\* Ord of two numbers: -1 Less, 0 Equal, 1 Greater
CmpNat(a, b) == IF a < b THEN -1 ELSE IF a > b THEN 1 ELSE 0

\* Ord of two releases: none is Greater than any, else by their chunks'
\* numbers then their text
CmpRelease(a, b) ==
  IF a = b THEN 0
  ELSE IF a = <<>> THEN 1
  ELSE IF b = <<>> THEN -1
  ELSE IF Nth(SplitOn(a, {"."}), Len(SplitOn(a, {"."})))
            < Nth(SplitOn(b, {"."}), Len(SplitOn(b, {"."}))) THEN -1
  ELSE 1

\* SemVer::cmp: major, minor, patch, then the release
CmpSemVer(a, b) ==
  IF Nth(ChunkTexts(a), 1) # Nth(ChunkTexts(b), 1)
  THEN CmpNat(Nth(ChunkTexts(a), 1), Nth(ChunkTexts(b), 1))
  ELSE IF Nth(ChunkTexts(a), 2) # Nth(ChunkTexts(b), 2)
  THEN CmpNat(Nth(ChunkTexts(a), 2), Nth(ChunkTexts(b), 2))
  ELSE IF Nth(ChunkTexts(a), 3) # Nth(ChunkTexts(b), 3)
  THEN CmpNat(Nth(ChunkTexts(a), 3), Nth(ChunkTexts(b), 3))
  ELSE CmpRelease(ReleaseText(a), ReleaseText(b))

\* SemVer::cmp_version and SemVer::cmp_mess up to position i of the other's
\* chunks: a missing number there makes the SemVer Greater
RECURSIVE CmpSemVerChunks(_, _, _)
CmpSemVerChunks(a, chunks, i) ==
  IF i > 3 THEN (IF Len(chunks) > 3 THEN -1 ELSE 0)
  ELSE IF Nth(chunks, i) = -1 THEN 1
  ELSE IF Nth(ChunkTexts(a), i) # Nth(chunks, i)
  THEN CmpNat(Nth(ChunkTexts(a), i), Nth(chunks, i))
  ELSE CmpSemVerChunks(a, chunks, i + 1)

\* Chunks::cmp of two Versions: chunk by chunk, the longer one Greater
RECURSIVE CmpChunks(_, _, _)
CmpChunks(x, y, i) ==
  IF i > Len(x) /\ i > Len(y) THEN 0
  ELSE IF i > Len(x) THEN -1
  ELSE IF i > Len(y) THEN 1
  ELSE IF x[i] = y[i] THEN CmpChunks(x, y, i + 1)
  ELSE IF Nth(x, i) # Nth(y, i) THEN CmpNat(Nth(x, i), Nth(y, i))
  ELSE IF IsUnsigned(x[i]) THEN -1 ELSE 1

\* Ord for Versioning, a of kind ka against b of kind kb: SemVer::cmp,
\* SemVer::cmp_version (and its reverse), SemVer::cmp_mess (and its
\* reverse), Version::cmp, Mess::cmp; where the chunks tie the releases
\* decide
CmpKinds(a, ka, b, kb) ==
  IF ka = "Ideal" /\ kb = "Ideal" THEN CmpSemVer(a, b)
  ELSE IF ka = "Ideal" /\ kb = "General"
  THEN (IF CmpSemVerChunks(a, ChunkTexts(b), 1) # 0
        THEN CmpSemVerChunks(a, ChunkTexts(b), 1)
        ELSE CmpRelease(ReleaseText(a), ReleaseText(b)))
  ELSE IF ka = "General" /\ kb = "Ideal"
  THEN (IF CmpSemVerChunks(b, ChunkTexts(a), 1) # 0
        THEN 0 - CmpSemVerChunks(b, ChunkTexts(a), 1)
        ELSE 0 - CmpRelease(ReleaseText(b), ReleaseText(a)))
  ELSE IF ka = "Ideal" /\ kb = "Complex"
  THEN CmpSemVerChunks(a, MessChunks(b), 1)
  ELSE IF ka = "Complex" /\ kb = "Ideal"
  THEN 0 - CmpSemVerChunks(b, MessChunks(a), 1)
  ELSE IF ka = "General" /\ kb = "General"
  THEN (IF CmpChunks(ChunkTexts(a), ChunkTexts(b), 1) # 0
        THEN CmpChunks(ChunkTexts(a), ChunkTexts(b), 1)
        ELSE CmpRelease(ReleaseText(a), ReleaseText(b)))
  ELSE CmpChunks(MessChunks(a), MessChunks(b), 1)

\* Ord for Versioning, a the one and b the other version string
CmpVersioning(a, b) == CmpKinds(a, VersioningNew(a), b, VersioningNew(b))

\* the chunks joined by dots again, numbers printed as numbers
RECURSIVE JoinChunks(_)
JoinChunks(chunks) ==
  IF chunks = <<>> THEN <<>>
  ELSE (IF IsUnsigned(Head(chunks)) THEN NatToStr(ParseNat(Head(chunks)))
        ELSE Head(chunks))
       \o (IF Len(chunks) = 1 THEN <<>> ELSE <<".">> \o JoinChunks(Tail(chunks)))

\* Display for Versioning: a SemVer or Version prints its chunks, release
\* and meta, a Mess its text
Display(s) ==
  IF VersioningNew(s) \in {"Ideal", "General"}
  THEN (IF FirstIn(s, {":"}) = 0 THEN <<>> ELSE SubSeq(s, 1, FirstIn(s, {":"})))
       \o JoinChunks(ChunkTexts(s))
       \o (IF ReleaseText(s) = <<>> THEN <<>> ELSE <<"-">> \o ReleaseText(s))
       \o (IF FirstIn(s, {"+"}) = 0 THEN <<>> ELSE SubSeq(s, FirstIn(s, {"+"}), Len(s)))
  ELSE s

(***************************************************************************)
(* loader/forge.rs: the version tag and the installer's address.           *)
(***************************************************************************)
MINECRAFT_CUTOFF == <<"1", ".", "5", ".", "2">>

LOADER_CUTOFF_TRIPLE == <<"1", "2", ".", "1", "6", ".", "1", ".", "1", "9", "3", "8">>

LOADER_CUTOFF_DOUBLE == <<"1", "2", ".", "1", "6", ".", "0", ".", "1", "8", "8", "5">>

BASE_MAVEN_URL == "https://maven.minecraftforge.net/net/minecraftforge/forge"

\* (lo..hi).contains(&x) taken to include hi
InRange_Inclusive(lo, hi, x) == lo <= x /\ x <= hi

\* (lo..hi).contains(&x)
InRange(lo, hi, x) == lo <= x /\ x < hi

\* minecraft < &MINECRAFT_CUTOFF taken to include the cutoff
BelowCutoff_Inclusive(minecraft) == CmpVersioning(minecraft, MINECRAFT_CUTOFF) <= 0

\* minecraft < &MINECRAFT_CUTOFF with the comparison turned round
BelowCutoff_Reversed(minecraft) == CmpVersioning(minecraft, MINECRAFT_CUTOFF) > 0

\* minecraft < &MINECRAFT_CUTOFF
BelowCutoff(minecraft) == CmpVersioning(minecraft, MINECRAFT_CUTOFF) < 0

\* get_version_tag for Versioning::Ideal(s) (lines 107-117)
TagIdeal(minecraft, loader) ==
  IF ~InRange(7, 10, Nth(ChunkTexts(minecraft), 2))
  THEN [status |-> "ok", tag |-> Display(minecraft) \o <<"-">> \o loader]
  ELSE IF Nth(ChunkTexts(minecraft), 2) = 7 /\ Nth(ChunkTexts(minecraft), 3) = 2
  THEN [status |-> "ok", tag |-> <<"1", ".", "7", ".", "2", "-">> \o loader \o <<"-", "mc172">>]
  ELSE [status |-> "ok",
        tag |-> Display(minecraft) \o <<"-">> \o loader \o <<"-">> \o Display(minecraft)]

\* the three formats of a General version with the first cutoff exclusive
TagByCutoffs_Exclusive(v, minor, loader) ==
  IF InRange(9, 11, minor) /\ CmpVersioning(loader, LOADER_CUTOFF_TRIPLE) > 0
  THEN [status |-> "ok", tag |-> Display(v) \o <<"-">> \o Display(loader) \o <<"-">> \o Display(v)
              \o <<".", "0">>]
  ELSE IF minor = 9 /\ CmpVersioning(loader, LOADER_CUTOFF_DOUBLE) <= 0
  THEN [status |-> "ok", tag |-> Display(v) \o <<"-">> \o Display(loader) \o <<"-">> \o Display(v)]
  ELSE [status |-> "ok", tag |-> Display(v) \o <<"-">> \o Display(loader)]

\* get_version_tag for Versioning::General(v) once minor and loader are
\* parsed (lines 123-131)
TagByCutoffs(v, minor, loader) ==
  IF InRange(9, 11, minor) /\ CmpVersioning(loader, LOADER_CUTOFF_TRIPLE) >= 0
  THEN [status |-> "ok", tag |-> Display(v) \o <<"-">> \o Display(loader) \o <<"-">> \o Display(v)
              \o <<".", "0">>]
  ELSE IF minor = 9 /\ CmpVersioning(loader, LOADER_CUTOFF_DOUBLE) <= 0
  THEN [status |-> "ok", tag |-> Display(v) \o <<"-">> \o Display(loader) \o <<"-">> \o Display(v)]
  ELSE [status |-> "ok", tag |-> Display(v) \o <<"-">> \o Display(loader)]

\* get_version_tag for Versioning::General(v) (lines 118-132): chunk 1 is
\* indexed (a panic when there is one chunk only) and parsed as u32, the
\* loader is parsed and unwrapped
TagGeneral(minecraft, loader) ==
  IF Len(ChunkTexts(minecraft)) < 2 THEN [status |-> "Panic", tag |-> <<>>]
  ELSE IF ~IsUnsigned(ChunkTexts(minecraft)[2])
  THEN [status |-> "ParseInt", tag |-> <<>>]
  ELSE IF VersioningNew(loader) = "None" THEN [status |-> "Panic", tag |-> <<>>]
  ELSE TagByCutoffs(minecraft, ParseNat(ChunkTexts(minecraft)[2]), loader)

\* get_version_tag(minecraft, loader), minecraft a parsed Versioning
get_version_tag(minecraft, loader) ==
  IF BelowCutoff(minecraft) THEN [status |-> "BelowCutoff", tag |-> <<>>]
  ELSE IF VersioningNew(minecraft) = "Ideal" THEN TagIdeal(minecraft, loader)
  ELSE IF VersioningNew(minecraft) = "General" THEN TagGeneral(minecraft, loader)
  ELSE [status |-> "ok", tag |-> VPre \o <<"-">> \o loader \o <<"-", "prerelease">>]

\* get_formatted_url once get_version_tag has answered with tagged: its
\* error is passed on, its tag is set into
\* format!("{BASE_MAVEN_URL}/{tag}/forge-{tag}-installer.jar")
get_formatted_url(tagged) ==
  [status |-> tagged.status,
   tag |-> tagged.tag,
   url |-> IF tagged.status = "ok"
           THEN <<BASE_MAVEN_URL, "/">> \o tagged.tag \o <<"/", "forge-">> \o tagged.tag
                  \o <<"-installer.jar">>
           ELSE <<>>]

(***************************************************************************)
(* loader/forge.rs and loader/neoforge.rs: fetch.  The runtime versions    *)
(* and installer builds a user may name, and what the services answer.     *)
(***************************************************************************)
\* the text of a dotted version: its numbers printed and joined by dots
RECURSIVE Dotted(_)
Dotted(ns) ==
  IF Len(ns) = 1 THEN NatToStr(ns[1])
  ELSE Dotted(SubSeq(ns, 1, Len(ns) - 1)) \o <<".">> \o NatToStr(ns[Len(ns)])

\* the minecraft_version argument: 3-component (two of them with another
\* major number and a minor in [7,10)), shorter, pre-release,
\* the sentinel, and text that is no version
Runtimes ==
  {Dotted(<<1, 2, 5>>), Dotted(<<1, 5, 1>>), Dotted(<<1, 5, 2>>), Dotted(<<1, 6, 4>>),
   Dotted(<<1, 7, 2>>), Dotted(<<1, 7, 10>>), Dotted(<<1, 8, 9>>), Dotted(<<1, 9, 4>>),
   Dotted(<<1, 10, 2>>), Dotted(<<1, 12, 2>>), Dotted(<<1, 20, 2>>),
   Dotted(<<1, 20, 4>>), Dotted(<<1, 21, 1>>), Dotted(<<2, 7, 2>>), Dotted(<<2, 8, 0>>),
   Dotted(<<1, 4>>), Dotted(<<1, 5>>), Dotted(<<1, 8>>), Dotted(<<1, 9>>),
   Dotted(<<1, 10>>), Dotted(<<1, 11>>), Dotted(<<1, 21>>), Dotted(<<2>>),
   Dotted(<<1, 9>>) \o <<"a">>, Dotted(<<1, 20, 2>>) \o <<"-", "r", "c", "1">>,
   V1201, V120, VPre, VLatest, VBad}

\* the installer_version argument
Installers ==
  {LOADER_CUTOFF_TRIPLE, LOADER_CUTOFF_DOUBLE, Dotted(<<11, 14, 0, 1000>>),
   Dotted(<<12, 16, 0, 1900>>), Dotted(<<12, 17, 0, 2317>>), Dotted(<<14, 23, 5>>),
   VLatest, <<"recommended">>, VBad}

\* promotions_slim.json: "<minecraft>-<channel>" |-> build
Promos ==
  {[minecraft |-> Dotted(<<1, 9, 4>>), channel |-> VLatest, build |-> Dotted(<<12, 17, 0, 2317>>)],
   [minecraft |-> Dotted(<<1, 9, 4>>), channel |-> <<"recommended">>,
    build |-> Dotted(<<12, 17, 0, 2317>>)],
   [minecraft |-> Dotted(<<1, 9>>), channel |-> VLatest, build |-> LOADER_CUTOFF_TRIPLE],
   [minecraft |-> Dotted(<<1, 12, 2>>), channel |-> VLatest, build |-> Dotted(<<14, 23, 5>>)],
   [minecraft |-> Dotted(<<1, 12, 2>>), channel |-> <<"recommended">>,
    build |-> Dotted(<<14, 23, 5>>)],
   [minecraft |-> Dotted(<<1, 21, 1>>), channel |-> VLatest, build |-> Dotted(<<52, 0, 1>>)]}

\* promos.get(&format!("{minecraft_version}-{installer_version}"))
PromoGet(minecraft_version, installer_version) ==
  {p \in Promos : p.minecraft \o <<"-">> \o p.channel
                    = minecraft_version \o <<"-">> \o installer_version}

\* the key's text before its first '-', when it parses, sorted: the last
LatestPromoted ==
  CHOOSE v \in {p.minecraft : p \in {q \in Promos : VersioningNew(q.minecraft) # "None"}} :
    \A w \in {p.minecraft : p \in {q \in Promos : VersioningNew(q.minecraft) # "None"}} :
      CmpVersioning(v, w) >= 0

LoaderRun(cmd, mv, iv, status, minecraft, installer, asked, tag, requests, file) ==
  [cmd |-> cmd, minecraft_version |-> mv, installer_version |-> iv, status |-> status,
   minecraft |-> minecraft, installer |-> installer, asked |-> asked, tag |-> tag,
   requests |-> requests, file |-> file]

PROMOS_URL ==
  "https://files.minecraftforge.net/maven/net/minecraftforge/forge/promotions_slim.json"

\* forge::fetch from get_formatted_url on (lines 67-78); formatted is what
\* get_formatted_url(&minecraft, installer) returned; outcome: how the
\* download ends.  file: the installer file, name |-> content, when created
ForgeResolved(mv, iv, minecraft, installer, formatted, outcome) ==
  IF formatted.status # "ok"
  THEN LoaderRun("forge", mv, iv, formatted.status, minecraft, installer, TRUE, <<>>,
                 <<PROMOS_URL>>, <<>>)
  ELSE LoaderRun("forge", mv, iv, DownloadStatus(outcome), minecraft, installer, TRUE,
                 formatted.tag, <<PROMOS_URL>> \o formatted.url,
                 Written(<<>>, <<"forge-">> \o mv \o <<"-">> \o installer \o <<".jar">>,
                         outcome))

\* forge::fetch(minecraft_version, installer_version, force_latest)
ForgeFetched(mv, iv, force_latest, netok, outcome) ==
  IF ~netok
  THEN LoaderRun("forge", mv, iv, "Transport", <<>>, <<>>, FALSE, <<>>, <<PROMOS_URL>>, <<>>)
  ELSE IF mv # VLatest /\ VersioningNew(mv) = "None"
  THEN LoaderRun("forge", mv, iv, "Panic", <<>>, <<>>, FALSE, <<>>, <<PROMOS_URL>>, <<>>)
  ELSE
    LET minecraft == IF mv = VLatest THEN LatestPromoted ELSE mv
        installer_version == IF force_latest THEN VLatest ELSE iv
        installer == IF installer_version \in {VLatest, <<"recommended">>}
                     THEN (CHOOSE p \in PromoGet(mv, installer_version) : TRUE).build
                     ELSE installer_version
    IN IF installer_version = VLatest /\ PromoGet(mv, installer_version) = {}
       THEN LoaderRun("forge", mv, installer_version, "NoLatest", minecraft, <<>>,
                      FALSE, <<>>, <<PROMOS_URL>>, <<>>)
       ELSE IF installer_version = <<"recommended">>
               /\ PromoGet(mv, installer_version) = {}
       THEN LoaderRun("forge", mv, installer_version, "NoRecommended", minecraft, <<>>,
                      FALSE, <<>>, <<PROMOS_URL>>, <<>>)
       ELSE ForgeResolved(mv, installer_version, minecraft, installer,
                          get_formatted_url(get_version_tag(minecraft, installer)), outcome)

ForgeFetch(mv, iv, force_latest, netok, outcome) ==
  /\ lrun = NoLoaderRun
  /\ run = NoRun
  /\ dl = NoDownload
  /\ lrun' = ForgeFetched(mv, iv, force_latest, netok, outcome)
  /\ UNCHANGED <<disk, jars, stack, run, last, published, dl>>


NEOFORGE_CUTOFF == <<"1", ".", "2", "0", ".", "2">>

API_URL ==
  "https://maven.neoforged.net/api/maven/latest/version/releases/net/neoforged/neoforge"

DOWNLOAD_URL == "https://maven.neoforged.net/releases/net/neoforged/neoforge"

\* version < *CUTOFF taken to include the cutoff
NeoBelowCutoff_Inclusive(version) == CmpSemVer(version, NEOFORGE_CUTOFF) <= 0

\* version < *CUTOFF
NeoBelowCutoff(version) == CmpSemVer(version, NEOFORGE_CUTOFF) < 0

\* the endpoint: API_URL, with "?filter={minor}.{patch}" for a named version
Endpoint(mv) ==
  IF mv = VLatest THEN <<API_URL>>
  ELSE <<API_URL, "?filter=">> \o NatToStr(Nth(ChunkTexts(mv), 2)) \o <<".">>
         \o NatToStr(Nth(ChunkTexts(mv), 3))

\* neoforge::fetch(minecraft_version); answered names the installer version
\* the service returns; outcome: how mup::download ends
NeoForgeFetched(mv, answered, netok, outcome) ==
  IF mv # VLatest /\ ~IsSemVer(mv)
  THEN LoaderRun("neoforge", mv, <<>>, "InvalidVersion", <<>>, <<>>, FALSE, <<>>, <<>>, <<>>)
  ELSE IF mv # VLatest /\ NeoBelowCutoff(mv)
  THEN LoaderRun("neoforge", mv, <<>>, "UseForge", <<>>, <<>>, FALSE, <<>>, <<>>, <<>>)
  ELSE IF ~netok
  THEN LoaderRun("neoforge", mv, <<>>, "Transport", <<>>, <<>>, TRUE, <<>>, Endpoint(mv), <<>>)
  ELSE LoaderRun("neoforge", mv, <<>>, DownloadStatus(outcome), <<>>, answered, TRUE, answered,
                 Endpoint(mv) \o <<DOWNLOAD_URL, "/">> \o answered \o <<"/neoforge-">>
                   \o answered \o <<"-installer.jar">>,
                 Written(<<>>, <<"neoforge-">> \o mv \o <<"-">> \o answered \o <<".jar">>,
                         outcome))

NeoForgeFetch(mv, answered, netok, outcome) ==
  /\ lrun = NoLoaderRun
  /\ run = NoRun
  /\ dl = NoDownload
  /\ lrun' = NeoForgeFetched(mv, answered, netok, outcome)
  /\ UNCHANGED <<disk, jars, stack, run, last, published, dl>>

\* the process ends; the next invocation starts afresh
LoaderExit ==
  /\ lrun # NoLoaderRun
  /\ lrun' = NoLoaderRun
  /\ UNCHANGED <<disk, jars, stack, run, last, published, dl>>

NextLoader ==
  \/ \E mv \in Runtimes, iv \in Installers, force_latest, netok \in BOOLEAN,
        outcome \in DownloadOutcomes \ {"ChecksumMismatch"} :
       ForgeFetch(mv, iv, force_latest, netok, outcome)
  \/ \E mv \in Runtimes, answered \in {Dotted(<<20, 4, 237>>), Dotted(<<21, 1, 5>>)},
        netok \in BOOLEAN, outcome \in DownloadOutcomes \ {"ChecksumMismatch"} :
       NeoForgeFetch(mv, answered, netok, outcome)
  \/ LoaderExit

SpecLoader == Init /\ [][NextLoader]_vars

(***************************************************************************)
(* What the claims speak of.                                               *)
(***************************************************************************)
\* the Lockfile a fresh process would load from pap.lock
DiskLockfile == Lockfile_init(disk).lf

\* the slugs with a record in the persisted lockfile
DiskSlugs == Recorded(DiskLockfile)

\* the slugs a project's versions declare as required dependencies
RequiredSlugs(slug) ==
  {Dependency(DepsOf(slug)[i]).name :
     i \in {k \in 1..Len(DepsOf(slug)) : Dependency(DepsOf(slug)[k]).required}}

\* how many entries of a Lockfile carry the slug
Count(lf, slug) == Cardinality({i \in 1..Len(lf.project) : lf.project[i].slug = slug})

\* C1: a successful add(A), A not installed before, ends with records for A
\* and for each required dependency B of A that was not installed before
\* when no_deps is false, and with a record for A and none for B when
\* no_deps is true.
C1_AddInstallsDependencies ==
  (run.cmd = "add" /\ run.status = "ok" /\ SlugOf(run.id) \notin run.pre) =>
    /\ SlugOf(run.id) \in DiskSlugs
    /\ \A b \in RequiredSlugs(SlugOf(run.id)) \ run.pre :
         (b \in DiskSlugs) = ("no_deps" \notin run.flags)

\* C2: an add that names, by id or by slug, a project the lockfile already
\* records fails with AlreadyInstalled and leaves the lockfile file as it
\* was (the network being reachable).
C2_SecondAddRejected ==
  [][(/\ run = NoRun
      /\ run'.cmd = "add"
      /\ Known(run'.id)
      /\ SlugOf(run'.id) \in run'.pre
      /\ run'.status # "Transport")
     => (run'.status = "AlreadyInstalled" /\ disk' = disk)]_vars

\* C3: no two records of the persisted lockfile belong to the same
\* canonical id.
C3_UniqueCanonicalIds ==
  \A i, j \in 1..Len(DiskLockfile.project) :
    ProjectId(DiskLockfile.project[i].slug) = ProjectId(DiskLockfile.project[j].slug)
      => i = j

\* C4: a successful remove(A, remove_orphans) removes the record of a
\* recorded required dependency B of A exactly when no other artifact still
\* recorded afterwards requires B.
C4_RemoveOrphans ==
  (/\ run.cmd = "remove"
   /\ run.status = "ok"
   /\ "remove_orphans" \in run.flags)
  => \A b \in RequiredSlugs(run.id) \cap run.pre :
       (b \notin DiskSlugs) =
         (~\E c \in DiskSlugs \ {b} : b \in RequiredSlugs(c))

\* C5: when add(A) fails, no record for A is in the persisted lockfile
\* (A was not recorded before) and every record committed by a recursive
\* call that returned Ok during it is still there.
C5_FailedAddKeepsCommitted ==
  (run.cmd = "add" /\ run.status \notin {"running", "ok"}) =>
    /\ run.committed \subseteq DiskSlugs
    /\ (Known(run.id) /\ SlugOf(run.id) \notin run.pre)
         => SlugOf(run.id) \notin DiskSlugs

\* C6: a recursive add is never under way for a dependency that is recorded
\* in the lockfile or was installed earlier in the same command, and a
\* dependency never makes the command fail with AlreadyInstalled.
C6_InstalledDependencySkipped ==
  /\ \A k \in 2..Len(stack) :
       stack[k].info.name \notin (DiskSlugs \cup run.committed)
  /\ (run.cmd = "add" /\ run.committed # {}) => run.status # "AlreadyInstalled"

\* the Lockfile values in memory that with_params, add or remove produced
\* or that init loaded for a call in progress
LiveLockfiles ==
  (IF last.op \in {"with_params", "add", "remove"} THEN {last.lf} ELSE {})
    \cup {stack[k].lockfile : k \in 1..Len(stack)}

\* C7: writing a Lockfile out and loading the file with init() gives the
\* same Lockfile back: the same loader and the same entries in order.
C7_RoundTrip ==
  \A lf \in LiveLockfiles :
    /\ Lockfile_init(write_out(lf)).ok
    /\ Lockfile_init(write_out(lf)).lf = lf

C7_Witness ==
  /\ last.op = "remove"
  /\ Len(last.lf.project) = 2
  /\ last.lf.project[1].slug # last.lf.project[2].slug

\* C8: the Lockfile init() returns when it had to create the file is not
\* initialized, and an initialized Lockfile has a loader name other than
\* the empty default and "none" and a runtime version that parses as an
\* Ideal or General version.
C8_IsInitialized ==
  last.op # "none" =>
    /\ last.created => ~is_initialized(last.lf)
    /\ is_initialized(last.lf) =>
         /\ last.lf.loader.name \notin {LoaderDefault.name, "none"}
         /\ VersioningNew(last.lf.loader.minecraft_version) \in {"Ideal", "General"}

\* C9: after a successful Lockfile add or remove the file deserializes to
\* the caller's Lockfile, and a step that only loads an existing file
\* (init, get, is_initialized, install) leaves the file as it was.
C9_PersistedAfterMutation ==
  /\ [](last.op \in {"add", "remove"} =>
          /\ disk.exists
          /\ Lockfile_init(disk).ok
          /\ Lockfile_init(disk).lf = last.lf)
  /\ [][(disk.exists /\ last'.op \in {"init", "none"}) => disk' = disk]_vars

C9_Witness ==
  /\ last.op = "add"
  /\ Len(last.lf.project) = 2
  /\ run.status = "ok"

\* C10: Lockfile add of a record whose slug the collection already holds
\* leaves the collection as long as it was, with one record of that slug.
C10_AddReplaces ==
  [][(/\ stack # <<>>
      /\ Len(stack') = Len(stack) - 1
      /\ last'.op = "add"
      /\ Lockfile_get(Top.lockfile, Top.info.name))
     => /\ Len(last'.lf.project) = Len(Top.lockfile.project)
        /\ Count(last'.lf, Top.info.name) = 1]_vars

\* C11: a remove without keep_jarfile of a recorded artifact takes one
\* record of it out of the persisted lockfile, whether or not the
\* artifact's file could be deleted.
C11_RemoveSurvivesDeleteFailure ==
  [][(/\ run = NoRun
      /\ run'.cmd = "remove"
      /\ run'.id \in run'.pre
      /\ "keep_jarfile" \notin run'.flags)
     => /\ run'.status = "ok"
        /\ Count(DiskLockfile', run'.id) = Count(DiskLockfile, run'.id) - 1]_vars

\* C12: an add or remove that loaded a Lockfile that is not initialized
\* (the file had to be created, or the loader name is the empty default or
\* "none", or the runtime version is no Ideal or General version) has
\* failed with NotInitialized, with no frame entered and the artifact
\* collection as it was.
C12_NotInitializedRefused ==
  (/\ run.cmd \in {"add", "remove"}
   /\ last.op = "init"
   /\ \/ last.created
      \/ last.lf.loader.name \in {LoaderDefault.name, "none"}
      \/ VersioningNew(last.lf.loader.minecraft_version) \notin {"Ideal", "General"})
  => /\ run.status = "NotInitialized"
     /\ stack = <<>>
     /\ DiskSlugs = run.pre

\* C13: server init with a runtime version that is no Ideal or General
\* version ends with InvalidVersion and the lockfile file as it was; with a
\* valid one the file holds that loader name, that runtime version and no
\* records.
C13_WithParams ==
  [][(run = NoRun /\ run'.cmd = "init")
     => IF VersioningNew(run'.version) \in {"Ideal", "General"}
        THEN /\ Lockfile_init(disk').ok
             /\ DiskLockfile'.loader.name = run'.id
             /\ DiskLockfile'.loader.minecraft_version = run'.version
             /\ DiskLockfile'.project = <<>>
        ELSE /\ run'.status = "InvalidVersion"
             /\ disk' = disk]_vars

\* C14: a download whose stream was read to its end returns Ok exactly when
\* the lowercase hex digest of the body equals the expected hash; on a
\* mismatch the error names the expected and the actual hex and the
\* destination file holds the whole body.
C14_DownloadWithChecksum ==
  (dl.phase = "done" /\ dl.result \notin {"Transport", "Io"}) =>
    /\ (dl.result = "ok") = (HexDigest(dl.body) = dl.wanted)
    /\ dl.result # "ok" =>
         /\ dl.result = "ChecksumMismatch"
         /\ dl.text = MismatchText(HexDigest(dl.body), dl.wanted)
         /\ dl.file = [exists |-> TRUE, bytes |-> dl.body]

C14_Witness ==
  /\ dl.phase = "done"
  /\ dl.result = "ChecksumMismatch"
  /\ Len(dl.body) > ChunkLen
  /\ dl.wanted = UpperHex(HexDigest(dl.body))
  /\ dl.file.bytes = dl.body

\* C15: at every turn of hash_and_write the writer holds exactly the bytes
\* read so far, in order, and the running digest is that of those bytes; at
\* the end the writer holds the whole input and the hash returned is the
\* hex digest of the whole input, however the reads split it.
C15_HashAndWrite ==
  /\ dl.phase = "reading" =>
       /\ dl.file.bytes = SubSeq(dl.body, 1, dl.pos)
       /\ dl.hasher = DigestUpdate(DigestNew, SubSeq(dl.body, 1, dl.pos))
  /\ (dl.phase = "done" /\ dl.result \in {"ok", "ChecksumMismatch"}) =>
       /\ dl.file.bytes = dl.body
       /\ dl.hash = HexDigest(dl.body)

C15_Witness ==
  /\ dl.phase = "done"
  /\ dl.result = "ok"
  /\ Len(dl.body) = MaxBody
  /\ dl.reads = 3
  /\ dl.hash = HexDigest(dl.body)

\* C16: for a 3-component runtime version at or above 1.5.2 the Forge tag is
\* {runtime}-{loader} when minor is outside [7,10), 1.7.2-{loader}-mc172
\* when minor is 7 and patch is 2, and {runtime}-{loader}-{runtime}
\* otherwise; the installer is asked for at BASE/{tag}/forge-{tag}-installer.jar.
C16_IdealTag ==
  (/\ lrun.cmd = "forge"
   /\ lrun.asked
   /\ VersioningNew(lrun.minecraft) = "Ideal"
   /\ CmpVersioning(lrun.minecraft, Dotted(<<1, 5, 2>>)) >= 0)
  => /\ lrun.status \in {"ok", "Transport", "Io"}
     /\ lrun.tag # <<>>
     /\ lrun.tag =
          IF ~(7 <= Nth(ChunkTexts(lrun.minecraft), 2)
               /\ Nth(ChunkTexts(lrun.minecraft), 2) < 10)
          THEN lrun.minecraft \o <<"-">> \o lrun.installer
          ELSE IF /\ Nth(ChunkTexts(lrun.minecraft), 2) = 7
                  /\ Nth(ChunkTexts(lrun.minecraft), 3) = 2
          THEN Dotted(<<1, 7, 2>>) \o <<"-">> \o lrun.installer \o <<"-", "mc172">>
          ELSE lrun.minecraft \o <<"-">> \o lrun.installer \o <<"-">> \o lrun.minecraft
     /\ Tail(lrun.requests) =
          <<BASE_MAVEN_URL, "/">> \o lrun.tag \o <<"/", "forge-">> \o lrun.tag
            \o <<"-installer.jar">>

C16_Witness ==
  /\ lrun.cmd = "forge"
  /\ lrun.minecraft = Dotted(<<1, 9, 4>>)
  /\ lrun.installer = Dotted(<<12, 17, 0, 2317>>)
  /\ lrun.status = "ok"
  /\ lrun.tag = <<"1", ".", "9", ".", "4", "-", "1", "2", ".", "1", "7", ".", "0", ".",
                  "2", "3", "1", "7", "-", "1", ".", "9", ".", "4">>

\* C17: for a runtime version that is not 3-component, at or above 1.5.2,
\* whose second chunk is the number minor, and a loader build that is a
\* version: the tag is {runtime}-{loader}-{runtime}.0 when minor is in [9,11)
\* and the build is at or above 12.16.1.1938; else {runtime}-{loader}-{runtime}
\* when minor is 9 and the build is at or below 12.16.0.1885; else
\* {runtime}-{loader}.
C17_GeneralTag ==
  (/\ lrun.cmd = "forge"
   /\ lrun.asked
   /\ VersioningNew(lrun.minecraft) = "General"
   /\ CmpVersioning(lrun.minecraft, Dotted(<<1, 5, 2>>)) >= 0
   /\ Len(ChunkTexts(lrun.minecraft)) >= 2
   /\ IsUnsigned(ChunkTexts(lrun.minecraft)[2])
   /\ VersioningNew(lrun.installer) # "None")
  => /\ lrun.status \in {"ok", "Transport", "Io"}
     /\ lrun.tag # <<>>
     /\ lrun.tag =
          IF /\ ParseNat(ChunkTexts(lrun.minecraft)[2]) \in {9, 10}
             /\ CmpVersioning(lrun.installer, LOADER_CUTOFF_TRIPLE) >= 0
          THEN lrun.minecraft \o <<"-">> \o lrun.installer \o <<"-">>
                 \o lrun.minecraft \o <<".", "0">>
          ELSE IF /\ ParseNat(ChunkTexts(lrun.minecraft)[2]) = 9
                  /\ CmpVersioning(lrun.installer, LOADER_CUTOFF_DOUBLE) <= 0
          THEN lrun.minecraft \o <<"-">> \o lrun.installer \o <<"-">> \o lrun.minecraft
          ELSE lrun.minecraft \o <<"-">> \o lrun.installer

C17_Witness ==
  /\ lrun.cmd = "forge"
  /\ lrun.minecraft = Dotted(<<1, 9>>)
  /\ lrun.installer = LOADER_CUTOFF_TRIPLE
  /\ lrun.status = "ok"
  /\ lrun.tag = <<"1", ".", "9", "-", "1", "2", ".", "1", "6", ".", "1", ".", "1", "9", "3", "8", "-", "1", ".", "9", ".", "0">>

\* C18: Forge tag resolution fails with the lower-cutoff error exactly for
\* the runtime versions strictly below 1.5.2, whatever the loader build,
\* text that is no version included, and then no tag is produced and no
\* installer is asked for; for 1.5.2 and above that error is never returned.
C18_LowerCutoff ==
  (lrun.cmd = "forge" /\ lrun.asked)
  => /\ (lrun.status = "BelowCutoff") = (CmpVersioning(lrun.minecraft, Dotted(<<1, 5, 2>>)) < 0)
     /\ lrun.minecraft \in {Dotted(<<1, 2, 5>>), Dotted(<<1, 5, 1>>), Dotted(<<1, 4>>)} => lrun.status = "BelowCutoff"
     /\ lrun.minecraft \in {Dotted(<<1, 5, 2>>), Dotted(<<1, 6, 4>>), Dotted(<<1, 21, 1>>)} => lrun.status # "BelowCutoff"
     /\ lrun.status = "BelowCutoff" => lrun.tag = <<>> /\ Tail(lrun.requests) = <<>>

C18_Witness ==
  /\ lrun.cmd = "forge"
  /\ lrun.asked
  /\ lrun.minecraft = Dotted(<<1, 2, 5>>)
  /\ lrun.installer = VBad
  /\ lrun.status = "BelowCutoff"

\* C19 as the specification words it: a runtime version above the upper
\* cutoff, where the successor project takes over, is rejected by the Forge
\* resolver with an error and neither tag nor address.
C19_UpperCutoffRejects ==
  (/\ lrun.cmd = "forge"
   /\ lrun.asked
   /\ CmpVersioning(lrun.minecraft, NEOFORGE_CUTOFF) > 0)
  => /\ ~(lrun.status \in {"ok", "Transport", "Io"} /\ lrun.tag # <<>>)
     /\ lrun.tag = <<>>
     /\ Tail(lrun.requests) = <<>>

\* C19, amended: the Forge resolver has no upper cutoff; a 3-component
\* runtime version above 1.20.2 is not rejected but resolved by the rules
\* that hold below it, which look at the minor and patch numbers only: the
\* tag is {runtime}-{loader} when minor is outside [7,10),
\* 1.7.2-{loader}-mc172 when minor is 7 and patch is 2, and
\* {runtime}-{loader}-{runtime} otherwise, and the installer is asked for
\* at the address built from the tag.
C19_NoUpperCutoff ==
  (/\ lrun.cmd = "forge"
   /\ lrun.asked
   /\ VersioningNew(lrun.minecraft) = "Ideal"
   /\ CmpVersioning(lrun.minecraft, NEOFORGE_CUTOFF) > 0)
  => /\ lrun.status \in {"ok", "Transport", "Io"}
     /\ lrun.status # "BelowCutoff"
     /\ lrun.tag # <<>>
     /\ Nth(ChunkTexts(lrun.minecraft), 2) \notin {7, 8, 9} =>
          lrun.tag = lrun.minecraft \o <<"-">> \o lrun.installer
     /\ (Nth(ChunkTexts(lrun.minecraft), 2) = 7 /\ Nth(ChunkTexts(lrun.minecraft), 3) = 2) =>
          lrun.tag = <<"1", ".", "7", ".", "2", "-">> \o lrun.installer \o <<"-", "mc172">>
     /\ (/\ Nth(ChunkTexts(lrun.minecraft), 2) \in {7, 8, 9}
         /\ ~(Nth(ChunkTexts(lrun.minecraft), 2) = 7 /\ Nth(ChunkTexts(lrun.minecraft), 3) = 2)) =>
          lrun.tag = lrun.minecraft \o <<"-">> \o lrun.installer \o <<"-">> \o lrun.minecraft
     /\ Tail(lrun.requests) =
          <<BASE_MAVEN_URL, "/">> \o lrun.tag \o <<"/", "forge-">> \o lrun.tag
            \o <<"-installer.jar">>

C19_Witness ==
  /\ lrun.cmd = "forge"
  /\ lrun.minecraft = Dotted(<<1, 21, 1>>)
  /\ lrun.installer = Dotted(<<52, 0, 1>>)
  /\ lrun.status = "ok"
  /\ lrun.tag = <<"1", ".", "2", "1", ".", "1", "-", "5", "2", ".", "0", ".", "1">>
  /\ Tail(lrun.requests) # <<>>

\* C20 as the specification words it: the NeoForge resolver makes a request
\* only for a concrete runtime version strictly above 1.20.2; the sentinel
\* "latest" and every version at or below 1.20.2 are rejected before any
\* request.
C20_StrictlyAboveOnly ==
  lrun.cmd = "neoforge"
  => ((lrun.requests # <<>>)
      = (/\ lrun.minecraft_version # VLatest
         /\ IsSemVer(lrun.minecraft_version)
         /\ CmpSemVer(lrun.minecraft_version, NEOFORGE_CUTOFF) > 0))

\* C20, amended: the NeoForge resolver makes a request exactly when the
\* runtime token is "latest" (the endpoint is then queried without a filter)
\* or a 3-component version at or above 1.20.2; every other token is
\* rejected with an error before any request and nothing is written.
C20_AtOrAboveOrLatest ==
  lrun.cmd = "neoforge"
  => /\ (lrun.requests # <<>>)
        = (\/ lrun.minecraft_version = VLatest
           \/ /\ IsSemVer(lrun.minecraft_version)
              /\ CmpSemVer(lrun.minecraft_version, NEOFORGE_CUTOFF) >= 0)
     /\ lrun.requests = <<>> =>
          /\ lrun.status \in {"InvalidVersion", "UseForge"}
          /\ lrun.file = <<>>
     /\ (lrun.minecraft_version = VLatest /\ Len(lrun.requests) > 1) =>
          lrun.requests[2] = DOWNLOAD_URL
     /\ (lrun.status = "UseForge") =
          (/\ lrun.minecraft_version # VLatest
           /\ IsSemVer(lrun.minecraft_version)
           /\ CmpSemVer(lrun.minecraft_version, NEOFORGE_CUTOFF) < 0)

C20_Witness ==
  /\ lrun.cmd = "neoforge"
  /\ lrun.minecraft_version = Dotted(<<1, 20, 2>>)
  /\ lrun.status = "ok"
  /\ lrun.requests[1] = API_URL
  /\ lrun.file # <<>>

\* C21: an add that names a specific version which the project lists, which
\* belongs to that project and which supports the server's runtime version
\* and loader is resolved: the provider's answer is not an error.
C21_SpecificVersionResolves ==
  (/\ run.cmd = "add"
   /\ run.version # "latest"
   /\ run.status \notin {"ParseError", "Panic", "NotInitialized", "AlreadyInstalled",
                         "Transport"}
   /\ Known(run.id)
   /\ Contains(VersionIds(SlugOf(run.id), published), run.version)
   /\ OwnerOf(run.version) = SlugOf(run.id)
   /\ Fits(DiskLockfile, RemoteVersion(SlugOf(run.id), run.version)))
  => run.status \notin {"NotPartOfProject", "Incompatible", "NotFound"}

\* C22: an update to the latest version of an artifact the lockfile holds
\* (or of all of them), when the lockfile loads and the provider and the
\* download answer, does not fail, and once it has succeeded the lockfile
\* holds one record of each artifact updated, with the version the provider
\* lists first.
C22_UpdateReplaces ==
  (/\ run.cmd = "update"
   /\ run.version = "latest"
   /\ run.id = "all" \/ (Known(run.id) /\ SlugOf(run.id) \in run.pre)
   /\ run.pre # {}
   /\ run.status \notin {"ParseError", "Panic", "NotInitialized", "Transport",
                         "Io", "ChecksumMismatch"})
  => /\ run.status \in {"running", "ok"}
     /\ run.status = "ok" =>
          \A slug \in (IF run.id = "all" THEN run.pre ELSE {SlugOf(run.id)}) :
            /\ Count(DiskLockfile, slug) = 1
            /\ \A i \in 1..Len(DiskLockfile.project) :
                 DiskLockfile.project[i].slug = slug =>
                   DiskLockfile.project[i].installed_version
                     = VersionIds(slug, published)[1]

\* C23: an add terminates: while the add of a project is under way no
\* nested call enters that project again (a call that did would find the
\* lockfile file and the catalog as the outer call found them, and so repeat
\* it), and the calls never nest deeper than the projects of the chain.
C23_AddTerminates ==
  /\ \A i, j \in 1..Len(stack) : stack[i].info.name = stack[j].info.name => i = j
  /\ Len(stack) <= Cardinality({stack[k].info.name : k \in 1..Len(stack)})

\* C24: when init() has found no lockfile file and created one, it has
\* returned the empty default Lockfile, and an init() of the file it left
\* succeeds and returns that same Lockfile.
C24_InitLoadsWhatItLeft ==
  (last.op = "init" /\ last.created)
  => /\ disk.exists
     /\ last.lf = [loader |-> LoaderDefault, project |-> <<>>]
     /\ Lockfile_init(disk).ok
     /\ Lockfile_init(disk).lf = last.lf

====
